---- MODULE Spec2Model ----
(***************************************************************************)
(* Triangular life-like cellular automaton (src/main.py).                  *)
(*                                                                         *)
(* The model covers the automaton engine: Automaton.__init__ (grid         *)
(* construction with orientation-aware, wrapped neighbour addressing),     *)
(* the two rules (WolframRule, LifelikeRule) with the helpers              *)
(* int_to_bool_list / bool_list_to_int, Automaton.step, the cell toggle of *)
(* the driver's mouse handler, apply_init_state, the restart of main() and *)
(* the driver loop main_loop (events, step timer, search mode).            *)
(* Grid indices are 0-based as in the code: cells[i][j], i the column.     *)
(* Python objects that are mutated through a reference carry an identity:  *)
(* a cell has the field obj, the grid list has cells_ref.                  *)
(***************************************************************************)
EXTENDS Integers, Sequences, FiniteSets, TLC

VARIABLES
    pc,            \* "new" (no automaton yet), "ready", "failed" (constructor raised), "crashed" (step raised)
    raised,        \* the exception that ended the program, "none" if there is none
    args,          \* the arguments of the last Automaton(...) call
    attrs,         \* names of the attributes assigned on the automaton object
    neighborhood,  \* self.neighborhood
    turn,          \* self.turn
    rule,          \* self.rule
    cells,         \* self.cells
    cell_count_x,  \* self.cell_count_x
    cell_count_y,  \* self.cell_count_y
    cells_ref,     \* identity of the list object self.cells refers to
    paused,        \* global paused
    running,       \* global running
    restarting,    \* global restarting
    search_mode,   \* global search_mode
    sim_step_timer,\* main_loop's sim_step_timer, in units of SIM_STEP_TIME / SimStepTime
    dt,            \* main_loop's dt, in the same units
    population,    \* main_loop's population list
    old_cells,     \* main_loop's old_cells: the list it refers to, as that reference shows it
    loop_pc,       \* position of main(): "none", "setup", "events" (in an iteration of main_loop), "returned"
    last_event,    \* history: "auto" (line 219 stepped), "auto_raised", "return" (line 198), else "other"
    checks,        \* history: the values old_cells == automaton.cells had at line 220 in this run of main_loop
    pre_cells,     \* history: self.cells as it was when the last operation started
    ret,           \* history: value returned by the last completed step()
    last_op,       \* history: the last operation performed on the automaton
    last_cell,     \* history: coordinate hit by the last toggle, <<>> if none
    steps,         \* history: number of step() calls that returned since construction
    toggles        \* history: number of mouse events handled since construction

automaton_vars == <<pc, raised, args, attrs, neighborhood, turn, rule, cells,
                    cell_count_x, cell_count_y, cells_ref, pre_cells, ret, last_op,
                    last_cell, steps, toggles>>

driver_vars == <<paused, running, restarting, search_mode, sim_step_timer, dt,
                 population, old_cells, loop_pc, last_event, checks>>

vars == <<pc, raised, args, attrs, neighborhood, turn, rule, cells,
          cell_count_x, cell_count_y, cells_ref, pre_cells, ret, last_op, last_cell,
          steps, toggles, paused, running, restarting, search_mode, sim_step_timer,
          dt, population, old_cells, loop_pc, last_event, checks>>

(***************************************************************************)
(* Bounds of the model.                                                    *)
(***************************************************************************)
MaxDim == 4        \* cell_count_x, cell_count_y are drawn from 1..MaxDim
MaxTurn == 2       \* step() is called at most MaxTurn times per automaton
MaxToggles == 1    \* at most MaxToggles mouse events per automaton
MaxRuleNum == 257  \* Wolfram rule numbers of the rule specification: 0..MaxRuleNum
MaxDt == 1         \* clock.tick() returns 0..MaxDt time units

Dims == 1..MaxDim

\* The neighborhood of main() (line 326), the empty one, and one whose
\* offsets are negative and larger than the grid.
MainTemplate == << <<-1, 0>>, <<0, 1>>, <<1, 0>> >>
FarTemplate == << <<-5, 3>>, <<2, -7>> >>
Templates == { <<>>, MainTemplate, FarTemplate }

(***************************************************************************)
(* Rules.  A rule is a record; the fields a variant does not have are      *)
(* left at a default.                                                      *)
(***************************************************************************)
NoRule == [type |-> "none", rule_num |-> 0, birth |-> {}, survival |-> {}]

WolframRule(rule_num) ==
    [type |-> "wolfram", rule_num |-> rule_num, birth |-> {}, survival |-> {}]

LifelikeRule(birth, survival) ==
    [type |-> "lifelike", rule_num |-> 0, birth |-> birth, survival |-> survival]

\* 2 ** n
RECURSIVE Pow2(_)
Pow2(n) == IF n = 0 THEN 1 ELSE 2 * Pow2(n - 1)

\* Rules the engine specification constructs automatons with: the rule of
\* main() (line 301), Life's B3/S23, and Wolfram numbers inside and
\* outside the table range of the templates.
EngineRules ==
    { LifelikeRule({0, 1}, {0, 2}), LifelikeRule({3}, {2, 3}), LifelikeRule({1}, {1, 3}) }
    \cup { WolframRule(n) : n \in {0, 6, 150, 255, 256} }

(***************************************************************************)
(* CellDirection (lines 14-16) and Cell (lines 26-35).  The drawing        *)
(* geometry (pos, size, points) is not modelled.                           *)
(***************************************************************************)
CellDirectionValue(dir) == IF dir = "UPWARDS" THEN -1 ELSE 1

\* obj tells the objects at one coordinate apart: a copy of a cell is a new
\* object, numbered one higher than the cell it was copied from
Cell(neighbors, dir) ==
    [is_alive |-> FALSE, dir |-> dir, neighbors |-> neighbors, obj |-> 0]

\* Cell.__eq__ for two cells (lines 58-60)
CellEq(c1, c2) == c1.is_alive = c2.is_alive

(***************************************************************************)
(* Automaton.__init__ (lines 64-99)                                        *)
(***************************************************************************)
\* lines 77-80: the two parity checks
InitRaisesXOnly(x, y) == x % 2 # 0
InitRaises(x, y) == x % 2 # 0 \/ y % 2 # 0

\* line 92
DirOf(i, j) == IF (i + j) % 2 = 0 THEN "UPWARDS" ELSE "DOWNWARDS"

\* line 93: one neighbor coordinate
NeighborCoordNoMirror(i, j, dir, neighbor, x, y) ==
    << (i + neighbor[1]) % x, (j + neighbor[2]) % y >>
NeighborCoordNoWrap(i, j, dir, neighbor, x, y) ==
    << (i + neighbor[1]) % x, j + (-CellDirectionValue(dir)) * neighbor[2] >>
NeighborCoord(i, j, dir, neighbor, x, y) ==
    << (i + neighbor[1]) % x,
       (j + (-CellDirectionValue(dir)) * neighbor[2]) % y >>

\* line 93: the list comprehension over self.neighborhood
NeighborsDropLast(i, j, dir, nb, x, y) ==
    IF Len(nb) = 0 THEN <<>>
    ELSE [p \in 1..(Len(nb) - 1) |-> NeighborCoord(i, j, dir, nb[p], x, y)]
Neighbors(i, j, dir, nb, x, y) ==
    [p \in 1..Len(nb) |-> NeighborCoord(i, j, dir, nb[p], x, y)]

\* lines 89-99
BuildCells(nb, x, y) ==
    [i \in 0..(x - 1) |->
        [j \in 0..(y - 1) |->
            Cell(Neighbors(i, j, DirOf(i, j), nb, x, y), DirOf(i, j))]]

NoCells == [i \in {} |-> <<>>]
NoArgs == [neighborhood |-> <<>>, rule |-> NoRule, cell_count_x |-> 0, cell_count_y |-> 0]
AllAttrs == {"neighborhood", "turn", "rule", "cells", "cell_count_x", "cell_count_y"}

Width(cs) == Cardinality(DOMAIN cs)
Height(cs) == IF Width(cs) = 0 THEN 0 ELSE Cardinality(DOMAIN cs[0])
Coords(cs) == {c \in (DOMAIN cs) \X (0..(Height(cs) - 1)) : TRUE}

(***************************************************************************)
(* int_to_bool_list, bool_list_to_int (lines 133-138)                      *)
(***************************************************************************)
\* '{0:0b}'.format(num) as a list of bools, most significant digit first
RECURSIVE BinDigits(_)
BinDigits(num) ==
    IF num < 2 THEN << num = 1 >>
    ELSE Append(BinDigits(num \div 2), num % 2 = 1)

\* [False] * n : the empty list when n <= 0
Falses(n) == IF n <= 0 THEN <<>> ELSE [p \in 1..n |-> FALSE]

int_to_bool_list(num, length) ==
    LET r == BinDigits(num) IN Falses(length - Len(r)) \o r

\* int('0b' + digits, base=2); raises ValueError for the empty list
bool_list_to_int_raises(lst) == Len(lst) = 0

RECURSIVE bool_list_to_int(_)
bool_list_to_int(lst) ==
    IF Len(lst) = 0 THEN 0
    ELSE 2 * bool_list_to_int(SubSeq(lst, 1, Len(lst) - 1))
         + (IF lst[Len(lst)] THEN 1 ELSE 0)

\* Python's lst[idx] for a list held as a 1-based sequence
PyIndex(lst, idx) == IF idx < 0 THEN lst[Len(lst) + idx + 1] ELSE lst[idx + 1]

(***************************************************************************)
(* WolframRule.get_new_state (lines 144-145)                               *)
(***************************************************************************)
NeighborStates(grid, cell) ==
    [p \in 1..Len(cell.neighbors) |->
        grid[cell.neighbors[p][1]][cell.neighbors[p][2]].is_alive]

WolframConsultsSelf(r, grid, cell) ==
    cell.is_alive \/
    PyIndex(int_to_bool_list(r.rule_num, Pow2(Len(cell.neighbors))),
            -bool_list_to_int(NeighborStates(grid, cell)))
WolframLeastSignificantFirst(r, grid, cell) ==
    PyIndex(int_to_bool_list(r.rule_num, Pow2(Len(cell.neighbors))),
            -(bool_list_to_int(NeighborStates(grid, cell)) + 1))
WolframRule_get_new_state(r, grid, cell) ==
    PyIndex(int_to_bool_list(r.rule_num, Pow2(Len(cell.neighbors))),
            -bool_list_to_int(NeighborStates(grid, cell)))

(***************************************************************************)
(* LifelikeRule.get_new_state (lines 155-162)                              *)
(***************************************************************************)
RECURSIVE SumAlive(_, _, _)
SumAlive(grid, neighbors, p) ==
    IF p > Len(neighbors) THEN 0
    ELSE (IF grid[neighbors[p][1]][neighbors[p][2]].is_alive THEN 1 ELSE 0)
         + SumAlive(grid, neighbors, p + 1)

LifelikeSurvivalOnly(r, grid, cell) ==
    LET alive_count == SumAlive(grid, cell.neighbors, 1) IN
    alive_count \in r.survival
LifelikeRule_get_new_state(r, grid, cell) ==
    LET alive_count == SumAlive(grid, cell.neighbors, 1) IN
    \/ ~cell.is_alive /\ alive_count \in r.birth
    \/ cell.is_alive /\ alive_count \in r.survival

\* Rule.get_new_state: dispatch on the rule's class
get_new_state(r, grid, cell) ==
    IF r.type = "wolfram" THEN WolframRule_get_new_state(r, grid, cell)
    ELSE LifelikeRule_get_new_state(r, grid, cell)

\* get_new_state raises: only bool_list_to_int of an empty neighbor list can
get_new_state_raises(r, cell) ==
    r.type = "wolfram" /\ bool_list_to_int_raises(cell.neighbors)

(***************************************************************************)
(* Automaton.step (lines 108-118)                                          *)
(***************************************************************************)
\* line 113, right-hand side: the rule reads self.cells
StepCellInPlace(r, self_cells, new_cells, i, j) ==
    get_new_state(r, new_cells, new_cells[i][j])
StepCell(r, self_cells, new_cells, i, j) ==
    get_new_state(r, self_cells, self_cells[i][j])

\* line 114: the summand
CountCellOld(self_cells, new_cells, i, j) ==
    IF self_cells[i][j].is_alive THEN 1 ELSE 0
CountCell(self_cells, new_cells, i, j) ==
    IF new_cells[i][j].is_alive THEN 1 ELSE 0

\* range(len(self.cells)) x range(len(self.cells[0])) in loop order
LoopOrder(cs) ==
    [n \in 1..(Width(cs) * Height(cs)) |->
        << (n - 1) \div Height(cs), (n - 1) % Height(cs) >>]

ReverseOrder(cs) ==
    LET o == LoopOrder(cs) IN [n \in 1..Len(o) |-> o[Len(o) + 1 - n]]

\* the assignment <object obj at (i, j)>.is_alive = v as the list grid shows
\* it: grid changes when the cell it holds at (i, j) is that object
SetAlive(grid, i, j, obj, v) ==
    IF grid[i][j].obj = obj THEN [grid EXCEPT ![i][j].is_alive = v] ELSE grid

\* what the list view shows once the cells of grid have their present
\* state: the cells the two lists share are the same objects
SeenThrough(view, grid) ==
    [i \in DOMAIN view |->
        [j \in DOMAIN view[i] |->
            IF view[i][j].obj = grid[i][j].obj THEN grid[i][j] ELSE view[i][j]]]

\* lines 111-114: the loop body applied along the coordinates of order,
\* from its n-th entry on.  self_cells is the list self.cells as it shows
\* its cells at that point of the loop.
RECURSIVE StepLoop(_, _, _, _, _)
StepLoop(r, self_cells, acc, order, n) ==
    IF n > Len(order) THEN acc
    ELSE LET i == order[n][1]
             j == order[n][2]
             v == StepCell(r, self_cells, acc.new_cells, i, j)
             obj == acc.new_cells[i][j].obj
             nc == SetAlive(acc.new_cells, i, j, obj, v)
             sc == SetAlive(self_cells, i, j, obj, v)
         IN StepLoop(r, sc,
                     [new_cells |-> nc,
                      alive_count |-> acc.alive_count + CountCell(sc, nc, i, j),
                      self_cells |-> sc],
                     order, n + 1)

\* copy.copy(cell): a new object with the attributes of cell
CopyCellSameObject(cell) == cell
CopyCell(cell) == [cell EXCEPT !.obj = @ + 1]

\* line 109: new_cells holds a shallow copy of every cell
CopyCells(self_cells) ==
    [i \in DOMAIN self_cells |-> [j \in DOMAIN self_cells[i] |-> CopyCell(self_cells[i][j])]]

\* line 109: the list comprehension makes a new list
NewListSameObject(ref) == ref
NewList(ref) == ref + 1

\* lines 109-114
StepResult(r, self_cells, order) ==
    StepLoop(r, self_cells,
             [new_cells |-> CopyCells(self_cells), alive_count |-> 0,
              self_cells |-> self_cells],
             order, 1)

\* the first evaluation of the rule raises (every cell has as many neighbors
\* as the template has offsets)
StepRaises(r, self_cells) ==
    \E c \in Coords(self_cells) : get_new_state_raises(r, self_cells[c[1]][c[2]])

\* line 117
NextTurnTwice(t) == t + 2
NextTurn(t) == t + 1

(***************************************************************************)
(* The globals of lines 270-276 and the locals of main_loop (lines         *)
(* 173-176) before the loop has run.                                       *)
(***************************************************************************)
\* SIM_STEP_TIME (line 276) in the model's time unit, which is 0.2 seconds
SimStepTime == 1

\* old_cells before line 218 has run: it refers to no list
NoOld == [ref |-> -1, cells |-> NoCells]

DriverIdle ==
    /\ paused = TRUE
    /\ running = TRUE
    /\ restarting = FALSE
    /\ search_mode = FALSE
    /\ sim_step_timer = SimStepTime
    /\ dt = 0
    /\ population = <<>>
    /\ old_cells = NoOld
    /\ loop_pc = "none"
    /\ last_event = "none"
    /\ checks = <<>>

(***************************************************************************)
(* Initial state: no automaton has been constructed.                       *)
(***************************************************************************)
Init ==
    /\ pc = "new"
    /\ raised = "none"
    /\ args = NoArgs
    /\ attrs = {}
    /\ neighborhood = <<>>
    /\ turn = 0
    /\ rule = NoRule
    /\ cells = NoCells
    /\ cell_count_x = 0
    /\ cell_count_y = 0
    /\ cells_ref = 0
    /\ pre_cells = NoCells
    /\ ret = 0
    /\ last_op = "none"
    /\ last_cell = <<>>
    /\ steps = 0
    /\ toggles = 0
    /\ DriverIdle

\* Automaton(neighborhood=nb, rule=r, cell_count_x=x, cell_count_y=y)
ConstructWith(nb, r, x, y) ==
    /\ args' = [neighborhood |-> nb, rule |-> r, cell_count_x |-> x, cell_count_y |-> y]
    /\ pre_cells' = NoCells
    /\ ret' = 0
    /\ last_cell' = <<>>
    /\ steps' = 0
    /\ toggles' = 0
    /\ last_op' = "init"
    /\ IF InitRaises(x, y)
       THEN /\ pc' = "failed"
            /\ raised' = "ValueError"
            /\ UNCHANGED <<attrs, neighborhood, turn, rule, cells, cell_count_x,
                           cell_count_y, cells_ref>>
       ELSE /\ pc' = "ready"
            /\ raised' = "none"
            /\ attrs' = AllAttrs
            /\ neighborhood' = nb
            /\ turn' = 0
            /\ rule' = r
            /\ cells' = BuildCells(nb, x, y)
            /\ cell_count_x' = x
            /\ cell_count_y' = y
            /\ cells_ref' = 0

Construct ==
    /\ pc = "new"
    /\ \E nb \in Templates, r \in EngineRules, x \in Dims, y \in Dims :
          ConstructWith(nb, r, x, y)
    /\ UNCHANGED driver_vars

\* the effect of automaton.step() on the automaton
AutomatonStep ==
    IF StepRaises(rule, cells)
    THEN /\ pc' = "crashed"
         /\ raised' = "ValueError"
         /\ last_op' = "step_raised"
         /\ UNCHANGED <<args, attrs, neighborhood, turn, rule, cells, cell_count_x,
                        cell_count_y, cells_ref, pre_cells, ret, last_cell, steps,
                        toggles>>
    ELSE LET res == StepResult(rule, cells, LoopOrder(cells)) IN
         /\ cells' = res.new_cells
         /\ cells_ref' = NewList(cells_ref)
         /\ turn' = NextTurn(turn)
         /\ ret' = res.alive_count
         /\ pre_cells' = cells
         /\ last_op' = "step"
         /\ steps' = steps + 1
         /\ UNCHANGED <<pc, raised, args, attrs, neighborhood, rule, cell_count_x,
                        cell_count_y, last_cell, toggles>>

\* automaton.step()
Step ==
    /\ pc = "ready"
    /\ turn < MaxTurn
    /\ AutomatonStep
    /\ UNCHANGED driver_vars

\* main_loop lines 199-202: a mouse click on the cell at c, or on no cell
ToggleCellsColumn(cs, c) ==
    [cs EXCEPT ![c[1]] = [j \in DOMAIN @ |-> [@[j] EXCEPT !.is_alive = ~@]]]
ToggleCells(cs, c) == [cs EXCEPT ![c[1]][c[2]].is_alive = ~@]

\* the effect of lines 200-202 on the automaton
ToggleAt(c) ==
    /\ cells' = IF c = <<>> THEN cells ELSE ToggleCells(cells, c)
    /\ last_cell' = c
    /\ pre_cells' = cells
    /\ last_op' = "toggle"
    /\ toggles' = toggles + 1
    /\ UNCHANGED <<pc, raised, args, attrs, neighborhood, turn, rule, cell_count_x,
                   cell_count_y, cells_ref, ret, steps>>

Toggle ==
    /\ pc = "ready"
    /\ toggles < MaxToggles
    /\ \E c \in Coords(cells) \cup {<<>>} : ToggleAt(c)
    /\ UNCHANGED driver_vars

\* main() lines 297-363: on restart the automaton is dropped and a new one
\* is constructed by the next iteration
Restart ==
    /\ pc = "ready"
    /\ pc' = "new"
    /\ raised' = "none"
    /\ args' = NoArgs
    /\ attrs' = {}
    /\ neighborhood' = <<>>
    /\ turn' = 0
    /\ rule' = NoRule
    /\ cells' = NoCells
    /\ cell_count_x' = 0
    /\ cell_count_y' = 0
    /\ cells_ref' = 0
    /\ pre_cells' = NoCells
    /\ ret' = 0
    /\ last_op' = "none"
    /\ last_cell' = <<>>
    /\ steps' = 0
    /\ toggles' = 0
    /\ UNCHANGED driver_vars

Next == Construct \/ Step \/ Toggle \/ Restart

Spec == Init /\ [][Next]_vars

(***************************************************************************)
(* Rule specification: the rules as pure functions.  It starts from an     *)
(* automaton on a 4 x 2 grid with any rule and any template, after         *)
(* apply_init_state (lines 257-260) has set the alive states, and applies  *)
(* step().                                                                 *)
(***************************************************************************)
RuleDimX == 4
RuleDimY == 2

\* lines 257-260; init_state is a Python list, held as a 1-based sequence
apply_init_state(cs, count_x, count_y, init_state) ==
    [i \in 0..(count_x - 1) |->
        [j \in 0..(count_y - 1) |->
            [cs[i][j] EXCEPT !.is_alive = init_state[i + j * count_x + 1]]]]

\* alive-state lists whose alive cells are among (0,0) and the three
\* neighbors (3,0), (0,1), (1,0) the template of main() gives it
SeedIndexes == {1, 2, 4, 5}
SeedStates ==
    { [n \in 1..(RuleDimX * RuleDimY) |-> n \in on] : on \in SUBSET SeedIndexes }

NeighborCounts == 0..3
AllRules ==
    { WolframRule(n) : n \in 0..MaxRuleNum }
    \cup { LifelikeRule(b, s) : b \in SUBSET NeighborCounts, s \in SUBSET NeighborCounts }

InitRule ==
    \E nb \in Templates, r \in AllRules, init_state \in SeedStates :
        /\ pc = "ready"
        /\ raised = "none"
        /\ args = [neighborhood |-> nb, rule |-> r,
                   cell_count_x |-> RuleDimX, cell_count_y |-> RuleDimY]
        /\ attrs = AllAttrs
        /\ neighborhood = nb
        /\ turn = 0
        /\ rule = r
        /\ cells = apply_init_state(BuildCells(nb, RuleDimX, RuleDimY),
                                    RuleDimX, RuleDimY, init_state)
        /\ cell_count_x = RuleDimX
        /\ cell_count_y = RuleDimY
        /\ cells_ref = 0
        /\ DriverIdle
        /\ pre_cells = BuildCells(nb, RuleDimX, RuleDimY)
        /\ ret = 0
        /\ last_op = "apply_init_state"
        /\ last_cell = <<>>
        /\ steps = 0
        /\ toggles = 0

NextRule == Step

SpecRule == InitRule /\ [][NextRule]_vars

(***************************************************************************)
(* Driver specification: main() and main_loop (lines 167-255, 288-365) on  *)
(* a 2 x 2 grid.  The parameters block of main() (rule, neighborhood,      *)
(* initial state) is drawn from sets; the initial alive states are set by  *)
(* apply_init_state.  Window focus, show_text (key H) and the screenshot   *)
(* (key S) do not change the state modelled here.                          *)
(***************************************************************************)
DriverDimX == 2
DriverDimY == 2

\* the rule of main() (line 301) and a Wolfram rule
DriverRules == { LifelikeRule({0, 1}, {0, 2}), WolframRule(0) }

DriverTemplates == { <<>>, MainTemplate }

\* the parameters blocks tried: the template of line 326 with either rule,
\* and the empty template with the Wolfram rule
DriverConfigs ==
    { cfg \in DriverTemplates \X DriverRules :
         cfg[1] = <<>> => cfg[2].type = "wolfram" }

\* initial alive-state lists: every cell dead, or the cell (0,0) alive
DriverSeedIndexes == {1}
DriverStates ==
    { [n \in 1..(DriverDimX * DriverDimY) |-> n \in on] :
         on \in SUBSET DriverSeedIndexes }

\* line 215
StepDue(timer, sm) == timer <= 0 \/ sm

\* line 216
AutoStepAllowedAlways(p) == TRUE
AutoStepAllowed(p) == ~p

\* line 220: old_cells == automaton.cells, list equality with Cell.__eq__
\* (lines 58-60) on the cells
GridsEqualByIdentity(old, new) == old = new
GridsEqual(old, new) ==
    /\ DOMAIN old = DOMAIN new
    /\ \A i \in DOMAIN old :
          /\ DOMAIN old[i] = DOMAIN new[i]
          /\ \A j \in DOMAIN old[i] : CellEq(old[i][j], new[i][j])

\* main() lines 324-336: the automaton of this run
DriverConstruct ==
    /\ pc = "new"
    /\ loop_pc = "none"
    /\ \E cfg \in DriverConfigs :
          ConstructWith(cfg[1], cfg[2], DriverDimX, DriverDimY)
    /\ loop_pc' = "setup"
    /\ last_event' = "other"
    /\ UNCHANGED <<paused, running, restarting, search_mode, sim_step_timer, dt,
                   population, old_cells, checks>>

\* main() lines 338-355: the initial state is applied and main_loop is
\* entered (lines 173-176)
DriverSetup ==
    /\ pc = "ready"
    /\ loop_pc = "setup"
    /\ \E init_state \in DriverStates :
          cells' = apply_init_state(cells, cell_count_x, cell_count_y, init_state)
    /\ pre_cells' = cells
    /\ last_op' = "apply_init_state"
    /\ population' = <<>>
    /\ dt' = 0
    /\ sim_step_timer' = SimStepTime
    /\ old_cells' = NoOld
    /\ checks' = <<>>
    /\ loop_pc' = "events"
    /\ last_event' = "other"
    /\ UNCHANGED <<pc, raised, args, attrs, neighborhood, turn, rule, cell_count_x,
                   cell_count_y, cells_ref, ret, last_cell, steps, toggles,
                   paused, running, restarting, search_mode>>

InLoop == pc = "ready" /\ loop_pc = "events"

\* lines 192-193
Quit ==
    /\ InLoop
    /\ running' = FALSE
    /\ last_event' = "other"
    /\ UNCHANGED automaton_vars
    /\ UNCHANGED <<paused, restarting, search_mode, sim_step_timer, dt, population,
                   old_cells, loop_pc, checks>>

\* lines 195-196
KeySpace ==
    /\ InLoop
    /\ paused' = ~paused
    /\ last_event' = "other"
    /\ UNCHANGED automaton_vars
    /\ UNCHANGED <<running, restarting, search_mode, sim_step_timer, dt, population,
                   old_cells, loop_pc, checks>>

\* lines 197-198
KeyReturn ==
    /\ InLoop
    /\ turn < MaxTurn
    /\ AutomatonStep
    /\ population' = IF pc' = "crashed" THEN population ELSE Append(population, ret')
    /\ old_cells' = [old_cells EXCEPT !.cells = SeenThrough(@, cells')]
    /\ last_event' = "return"
    /\ UNCHANGED <<paused, running, restarting, search_mode, sim_step_timer, dt,
                   loop_pc, checks>>

\* lines 199-202
MouseUp ==
    /\ InLoop
    /\ toggles < MaxToggles
    /\ \E c \in Coords(cells) \cup {<<>>} : ToggleAt(c)
    /\ old_cells' = [old_cells EXCEPT !.cells = SeenThrough(@, cells')]
    /\ last_event' = "other"
    /\ UNCHANGED <<paused, running, restarting, search_mode, sim_step_timer, dt,
                   population, loop_pc, checks>>

\* lines 203-204
KeyR ==
    /\ InLoop
    /\ restarting' = TRUE
    /\ last_event' = "other"
    /\ UNCHANGED automaton_vars
    /\ UNCHANGED <<paused, running, search_mode, sim_step_timer, dt, population,
                   old_cells, loop_pc, checks>>

\* lines 207-208
KeyF ==
    /\ InLoop
    /\ search_mode' = ~search_mode
    /\ last_event' = "other"
    /\ UNCHANGED automaton_vars
    /\ UNCHANGED <<paused, running, restarting, sim_step_timer, dt, population,
                   old_cells, loop_pc, checks>>

\* lines 218-221: the automatic step and the convergence check
AutoStep ==
    /\ turn < MaxTurn
    /\ AutomatonStep
    /\ IF pc' = "crashed"
       THEN /\ old_cells' = [ref |-> cells_ref, cells |-> cells]
            /\ last_event' = "auto_raised"
            /\ UNCHANGED <<population, checks, restarting>>
       ELSE LET seen == StepResult(rule, cells, LoopOrder(cells)).self_cells
                equal == GridsEqual(seen, cells')
            IN /\ old_cells' = [ref |-> cells_ref, cells |-> seen]
               /\ population' = Append(population, ret')
               /\ checks' = IF search_mode THEN Append(checks, equal) ELSE checks
               /\ restarting' = (restarting \/ (search_mode /\ equal))
               /\ last_event' = "auto"

\* lines 214-253 and the loop condition of line 190: the rest of an
\* iteration once its events are handled; d is what clock.tick returns
Tick ==
    /\ InLoop
    /\ \E d \in 0..MaxDt : dt' = d
    /\ LET timer == sim_step_timer - dt IN
       IF StepDue(timer, search_mode)
       THEN /\ sim_step_timer' = SimStepTime
            /\ IF AutoStepAllowed(paused)
               THEN AutoStep
               ELSE /\ last_event' = "other"
                    /\ UNCHANGED automaton_vars
                    /\ UNCHANGED <<population, old_cells, checks, restarting>>
       ELSE /\ sim_step_timer' = timer
            /\ last_event' = "other"
            /\ UNCHANGED automaton_vars
            /\ UNCHANGED <<population, old_cells, checks, restarting>>
    /\ loop_pc' = IF running /\ ~restarting' THEN "events" ELSE "returned"
    /\ UNCHANGED <<paused, running, search_mode>>

\* main() lines 361-365 and 297-298: after main_loop has returned the
\* program ends, or drops the automaton and starts over
MainAfterLoop ==
    /\ pc = "ready"
    /\ loop_pc = "returned"
    /\ IF ~restarting
       THEN /\ pc' = "quit"
            /\ UNCHANGED <<raised, args, attrs, neighborhood, turn, rule, cells,
                           cell_count_x, cell_count_y, cells_ref, pre_cells, ret,
                           last_op, last_cell, steps, toggles>>
            /\ UNCHANGED <<running, restarting, loop_pc, old_cells, population,
                           sim_step_timer, dt, checks>>
       ELSE /\ pc' = "new"
            /\ raised' = "none"
            /\ args' = NoArgs
            /\ attrs' = {}
            /\ neighborhood' = <<>>
            /\ turn' = 0
            /\ rule' = NoRule
            /\ cells' = NoCells
            /\ cell_count_x' = 0
            /\ cell_count_y' = 0
            /\ cells_ref' = 0
            /\ pre_cells' = NoCells
            /\ ret' = 0
            /\ last_op' = "none"
            /\ last_cell' = <<>>
            /\ steps' = 0
            /\ toggles' = 0
            /\ restarting' = FALSE
            /\ running' = TRUE
            /\ loop_pc' = "none"
            /\ old_cells' = NoOld
            /\ population' = <<>>
            /\ sim_step_timer' = SimStepTime
            /\ dt' = 0
            /\ checks' = <<>>
    /\ last_event' = "other"
    /\ UNCHANGED <<paused, search_mode>>

NextDriver ==
    \/ DriverConstruct
    \/ DriverSetup
    \/ Quit
    \/ KeySpace
    \/ KeyReturn
    \/ MouseUp
    \/ KeyR
    \/ KeyF
    \/ Tick
    \/ MainAfterLoop

SpecDriver == Init /\ [][NextDriver]_vars

TypeOK ==
    /\ pc \in {"new", "ready", "failed", "crashed", "quit"}
    /\ loop_pc \in {"none", "setup", "events", "returned"}
    /\ sim_step_timer \in 1..SimStepTime
    /\ dt \in 0..MaxDt
    /\ Len(population) <= MaxTurn + 1
    /\ raised \in {"none", "ValueError"}
    /\ turn \in 0..(MaxTurn + 1)
    /\ attrs \subseteq AllAttrs

(***************************************************************************)
(* Helpers of the properties                                               *)
(***************************************************************************)
Alive(grid, c) == grid[c[1]][c[2]].is_alive
AliveSet(grid) == {c \in Coords(grid) : Alive(grid, c)}
HasAutomaton == pc \in {"ready", "crashed"}
ArgsOdd == args.cell_count_x % 2 = 1 \/ args.cell_count_y % 2 = 1

\* the coordinates that are not in the neighbor list of the cell at c
NonNeighbors(grid, c) ==
    {d \in Coords(grid) :
        \A p \in 1..Len(grid[c[1]][c[2]].neighbors) : grid[c[1]][c[2]].neighbors[p] # d}

\* grid with the alive state of every cell at a coordinate of S negated
FlipAll(grid, S) ==
    [i \in DOMAIN grid |->
        [j \in DOMAIN grid[i] |->
            IF <<i, j>> \in S THEN [grid[i][j] EXCEPT !.is_alive = ~@] ELSE grid[i][j]]]

\* position of coordinate c in the loop of step()
LoopPos(grid, c) == c[1] * Height(grid) + c[2]

\* number of entries of the cell's neighbor list that are alive in grid
AliveNeighborEntries(grid, c) ==
    Cardinality({p \in 1..Len(grid[c[1]][c[2]].neighbors) :
                    Alive(grid, grid[c[1]][c[2]].neighbors[p])})

\* the neighbors' alive states packed with the first neighbor as the most
\* significant bit
RECURSIVE PackFrom(_, _, _)
PackFrom(grid, neighbors, p) ==
    IF p > Len(neighbors) THEN 0
    ELSE (IF Alive(grid, neighbors[p]) THEN Pow2(Len(neighbors) - p) ELSE 0)
         + PackFrom(grid, neighbors, p + 1)

PackedIndex(grid, c) == PackFrom(grid, grid[c[1]][c[2]].neighbors, 1)

\* bit m of num, bit 0 being the least significant
BitOf(num, m) == (num \div Pow2(m)) % 2 = 1

TableSize == Pow2(Len(neighborhood))

(***************************************************************************)
(* C1: step() is synchronous.  After a step the alive state of every cell  *)
(* is the rule's get_new_state on the grid as it was before the step, and  *)
(* evaluating the cells in the opposite order gives the same grid.         *)
(***************************************************************************)
StepIsSynchronous ==
    last_op = "step" =>
        /\ \A c \in Coords(cells) :
              Alive(cells, c) = get_new_state(rule, pre_cells, pre_cells[c[1]][c[2]])
        /\ StepResult(rule, pre_cells, ReverseOrder(pre_cells)).new_cells = cells

\* a step in which some cell has a neighbor that is evaluated earlier in the
\* loop and whose alive state the step changed
StepChangedEarlierNeighbor ==
    /\ last_op = "step"
    /\ \E c \in Coords(cells) :
          \E p \in 1..Len(cells[c[1]][c[2]].neighbors) :
             LET d == cells[c[1]][c[2]].neighbors[p] IN
             /\ LoopPos(cells, d) < LoopPos(cells, c)
             /\ Alive(cells, d) # Alive(pre_cells, d)

(***************************************************************************)
(* C2: WolframRule.get_new_state returns bit m of rule_number, bit 0 being *)
(* the least significant, m being the neighbors' alive states packed with  *)
(* the first neighbor most significant, for rule_number in [0, 2^(2^k)).   *)
(***************************************************************************)
WolframSelectsBitM ==
    (last_op = "step" /\ rule.type = "wolfram" /\ rule.rule_num < Pow2(TableSize)) =>
        \A c \in Coords(cells) :
            Alive(cells, c) = BitOf(rule.rule_num, PackedIndex(pre_cells, c))

(***************************************************************************)
(* C3: LifelikeRule.get_new_state, n being the number of alive entries of  *)
(* the cell's neighbor list, gives alive exactly when the cell is dead and *)
(* n is in birth, or the cell is alive and n is in survival.               *)
(***************************************************************************)
LifelikeBirthSurvival ==
    (last_op = "step" /\ rule.type = "lifelike") =>
        \A c \in Coords(cells) :
            LET n == AliveNeighborEntries(pre_cells, c) IN
            Alive(cells, c) <=>
                \/ ~Alive(pre_cells, c) /\ n \in rule.birth
                \/ Alive(pre_cells, c) /\ n \in rule.survival

\* one lifelike step with a birth, a survival, a death and a cell that
\* stays dead
LifelikeAllFourCases ==
    /\ last_op = "step"
    /\ rule.type = "lifelike"
    /\ \E c \in Coords(cells) : ~Alive(pre_cells, c) /\ Alive(cells, c)
    /\ \E c \in Coords(cells) : Alive(pre_cells, c) /\ Alive(cells, c)
    /\ \E c \in Coords(cells) : Alive(pre_cells, c) /\ ~Alive(cells, c)
    /\ \E c \in Coords(cells) : ~Alive(pre_cells, c) /\ ~Alive(cells, c)

(***************************************************************************)
(* C4: construction with an odd width or an odd height fails with an       *)
(* error and leaves no automaton, not even a partly built one; an          *)
(* automaton that exists has even dimensions.                              *)
(***************************************************************************)
OddDimensionFails ==
    /\ ArgsOdd => /\ pc = "failed"
                  /\ raised = "ValueError"
                  /\ attrs = {}
                  /\ cells = NoCells
    /\ HasAutomaton => cell_count_x % 2 = 0 /\ cell_count_y % 2 = 0

\* construction was called with an even width and an odd height
OddHeightFailed ==
    /\ pc = "failed"
    /\ args.cell_count_x % 2 = 0
    /\ args.cell_count_y % 2 = 1

(***************************************************************************)
(* C5: every automaton that exists with a WolframRule has                  *)
(* 0 <= rule_number < 2^(2^k), k the length of the neighborhood template   *)
(* (construction with a larger rule_number fails).                         *)
(***************************************************************************)
RuleNumberInRange ==
    (HasAutomaton /\ rule.type = "wolfram") =>
        /\ 0 <= rule.rule_num
        /\ rule.rule_num < Pow2(TableSize)

(***************************************************************************)
(* C6: the cell at (x,y) is Up when (x+y) mod 2 = 0 and Down otherwise;    *)
(* its i-th neighbor is the i-th template offset (dx,dy), wrapped on both  *)
(* axes, with dy added for an Up cell and subtracted for a Down cell; on   *)
(* the 4x4 grid with template [(-1,0),(0,1),(1,0)] the cell (0,0) has the  *)
(* neighbors (3,0), (0,1), (1,0).                                          *)
(***************************************************************************)
OrientationAndNeighbors ==
    pc = "ready" =>
        /\ \A c \in Coords(cells) :
              LET cell == cells[c[1]][c[2]] IN
              /\ cell.dir = "UPWARDS" <=> (c[1] + c[2]) % 2 = 0
              /\ cell.dir = "DOWNWARDS" <=> (c[1] + c[2]) % 2 = 1
              /\ Len(cell.neighbors) = Len(neighborhood)
              /\ \A p \in 1..Len(neighborhood) :
                    LET dx == neighborhood[p][1]
                        dy == neighborhood[p][2]
                    IN cell.neighbors[p] =
                          IF (c[1] + c[2]) % 2 = 0
                          THEN << (c[1] + dx) % cell_count_x, (c[2] + dy) % cell_count_y >>
                          ELSE << (c[1] + dx) % cell_count_x, (c[2] - dy) % cell_count_y >>
        /\ (cell_count_x = 4 /\ cell_count_y = 4 /\ neighborhood = MainTemplate) =>
              cells[0][0].neighbors = << <<3, 0>>, <<0, 1>>, <<1, 0>> >>

\* the 4x4 grid with the template of main(), just constructed
Grid4x4Constructed ==
    /\ pc = "ready"
    /\ last_op = "init"
    /\ cell_count_x = 4
    /\ cell_count_y = 4
    /\ neighborhood = MainTemplate
    /\ cells[1][0].dir = "DOWNWARDS"
    /\ cells[1][0].neighbors = << <<0, 0>>, <<1, 3>>, <<2, 0>> >>

(***************************************************************************)
(* C7: in every automaton, after any sequence of step() and toggles, every *)
(* stored neighbor coordinate (i,j) has 0 <= i < width and 0 <= j < height.*)
(***************************************************************************)
NeighborsInBounds ==
    HasAutomaton =>
        \A c \in Coords(cells) :
            \A p \in 1..Len(cells[c[1]][c[2]].neighbors) :
                LET n == cells[c[1]][c[2]].neighbors[p] IN
                /\ 0 <= n[1] /\ n[1] < cell_count_x
                /\ 0 <= n[2] /\ n[2] < cell_count_y

\* offsets larger than the grid and negative, after a toggle and a step
FarTemplateStepped ==
    /\ pc = "ready"
    /\ neighborhood = FarTemplate
    /\ cell_count_x = 2
    /\ turn >= 1
    /\ toggles >= 1
    /\ last_op = "step"

(***************************************************************************)
(* C8: construction with even width and height >= 2 succeeds and gives a   *)
(* width x height grid in which every cell's neighbor list is as long as   *)
(* the template; the length is the same after any number of steps.         *)
(***************************************************************************)
EvenDimensionsSucceed ==
    /\ (last_op # "none" /\ ~ArgsOdd) => HasAutomaton
    /\ HasAutomaton =>
          /\ cell_count_x = args.cell_count_x
          /\ cell_count_y = args.cell_count_y
          /\ DOMAIN cells = 0..(cell_count_x - 1)
          /\ \A i \in DOMAIN cells : DOMAIN cells[i] = 0..(cell_count_y - 1)
          /\ \A c \in Coords(cells) :
                Len(cells[c[1]][c[2]].neighbors) = Len(args.neighborhood)

\* a grid with three neighbors per cell that has been stepped twice
SteppedTwiceThreeNeighbors ==
    /\ pc = "ready"
    /\ turn = 2
    /\ Len(args.neighborhood) = 3
    /\ cell_count_x = 2
    /\ cell_count_y = 4

ReturnsNewPopulation ==
    last_op = "step" =>
        /\ ret = Cardinality(AliveSet(cells))
        /\ 0 <= ret
        /\ ret <= cell_count_x * cell_count_y

\* a step whose new population differs from the old one and is neither
\* empty nor the whole grid
PopulationChanged ==
    /\ last_op = "step"
    /\ ret # Cardinality(AliveSet(pre_cells))
    /\ 0 < ret
    /\ ret < cell_count_x * cell_count_y

(***************************************************************************)
(* C12: with WolframRule(0), for any even grid size, any neighborhood      *)
(* template and any alive states, a step() returns population 0, leaves    *)
(* every cell dead and advances turn (to 1 when it is the first step).     *)
(***************************************************************************)
WolframZeroStepAllDead ==
    (HasAutomaton /\ rule = WolframRule(0) /\ last_op \in {"step", "step_raised"}) =>
        /\ last_op = "step"
        /\ ret = 0
        /\ AliveSet(cells) = {}
        /\ turn = steps
        /\ turn >= 1

(***************************************************************************)
(* C13: with WolframRule(2^(2^k) - 1), k being the length of the           *)
(* neighborhood template, a step() from any alive states makes every cell  *)
(* alive and returns width * height.                                       *)
(***************************************************************************)
WolframAllOnesStepAllAlive ==
    (/\ rule.type = "wolfram"
     /\ rule.rule_num = Pow2(TableSize) - 1
     /\ last_op \in {"step", "step_raised"}) =>
        /\ last_op = "step"
        /\ AliveSet(cells) = Coords(cells)
        /\ ret = cell_count_x * cell_count_y

(***************************************************************************)
(* C14: the convergence check of search mode compares the grid held before *)
(* the automatic step with the grid held after it on alive states only:    *)
(* it reports convergence (and requests the restart) at the first checked  *)
(* step whose generation equals the preceding one, and at no earlier step. *)
(***************************************************************************)
ConvergenceAtFirstRepeat ==
    /\ \A n \in 1..(Len(checks) - 1) : ~checks[n]
    /\ (last_event = "auto" /\ search_mode) =>
          /\ Len(checks) >= 1
          /\ checks[Len(checks)] = (AliveSet(pre_cells) = AliveSet(cells))
          /\ checks[Len(checks)] = (AliveSet(old_cells.cells) = AliveSet(cells))
          /\ checks[Len(checks)] => (restarting /\ loop_pc = "returned")

\* a run in search mode whose first step changed the grid and whose second
\* step repeated the generation before it
ConvergedAtSecondStep ==
    /\ checks = <<FALSE, TRUE>>
    /\ last_event = "auto"
    /\ search_mode
    /\ turn = 2
    /\ restarting

(***************************************************************************)
(* C15: a toggle flips the alive state of exactly the clicked cell of the  *)
(* current grid and leaves every other alive state, every orientation and  *)
(* neighbor list, the rule and turn unchanged; a step() that follows the   *)
(* toggle is computed from the toggled grid.                               *)
(***************************************************************************)
ToggleFlipsOneCell ==
    [][ /\ (toggles' = toggles + 1) =>
            /\ rule' = rule
            /\ turn' = turn
            /\ neighborhood' = neighborhood
            /\ cells_ref' = cells_ref
            /\ Coords(cells') = Coords(cells)
            /\ \A c \in Coords(cells) :
                  /\ Alive(cells', c) =
                        (IF c = last_cell' THEN ~Alive(cells, c) ELSE Alive(cells, c))
                  /\ cells'[c[1]][c[2]].dir = cells[c[1]][c[2]].dir
                  /\ cells'[c[1]][c[2]].neighbors = cells[c[1]][c[2]].neighbors
                  /\ cells'[c[1]][c[2]].obj = cells[c[1]][c[2]].obj
        /\ (last_op = "toggle" /\ steps' = steps + 1) =>
            \A c \in Coords(cells') :
                Alive(cells', c) = get_new_state(rule, cells, cells[c[1]][c[2]])
      ]_vars

\* a first step taken right after a toggle that made a cell alive, which
\* gave a grid other than the step from the grid before the toggle
SteppedFromToggledGrid ==
    /\ pc = "ready"
    /\ last_op = "step"
    /\ turn = 1
    /\ toggles = 1
    /\ last_cell # <<>>
    /\ Alive(pre_cells, last_cell)
    /\ AliveSet(pre_cells) = {last_cell}
    /\ AliveSet(cells) # {}
    /\ AliveSet(cells) # Coords(cells)

(***************************************************************************)
(* C16: step() replaces the grid and does not mutate it in place: the      *)
(* reference taken before the step (old_cells, line 218) still shows the   *)
(* pre-step state of every cell after the step, and the grid the automaton *)
(* holds afterwards is another list whose cells are other objects.         *)
(***************************************************************************)
StepReplacesGrid ==
    last_event = "auto" =>
        /\ old_cells.ref # cells_ref
        /\ Coords(old_cells.cells) = Coords(cells)
        /\ \A c \in Coords(cells) :
              old_cells.cells[c[1]][c[2]].obj # cells[c[1]][c[2]].obj
        /\ old_cells.cells = pre_cells
        /\ AliveSet(old_cells.cells) = AliveSet(pre_cells)

\* an automatic step that changed the grid while the old reference is held
OldGridKeptAfterChange ==
    /\ last_event = "auto"
    /\ pc = "ready"
    /\ turn = 2
    /\ AliveSet(cells) # AliveSet(pre_cells)
    /\ AliveSet(old_cells.cells) # {}

(***************************************************************************)
(* C17: WolframRule.get_new_state does not consult the cell's own state:   *)
(* on a grid that agrees with the current one on the cell's neighbor list  *)
(* and differs on the cell itself, or on every cell outside the neighbor   *)
(* list, it returns the same value, and the state a step gave a cell is    *)
(* the value computed with the cell's own pre-step state negated.          *)
(***************************************************************************)
WolframIgnoresOwnState ==
    (pc = "ready" /\ rule.type = "wolfram" /\ neighborhood # <<>>) =>
        \A c \in Coords(cells) :
            /\ \A S \in { {c} \cap NonNeighbors(cells, c), NonNeighbors(cells, c) } :
                  LET other == FlipAll(cells, S) IN
                  WolframRule_get_new_state(rule, other, other[c[1]][c[2]])
                     = WolframRule_get_new_state(rule, cells, cells[c[1]][c[2]])
            /\ last_op = "step" =>
                  LET before == FlipAll(pre_cells, {c} \cap NonNeighbors(pre_cells, c)) IN
                  Alive(cells, c)
                     = WolframRule_get_new_state(rule, before, before[c[1]][c[2]])

\* a step of rule 150 in which two cells whose neighbors were in the same
\* configuration, one alive and one dead, both became alive
SameNeighborsDifferentSelf ==
    /\ pc = "ready"
    /\ last_op = "step"
    /\ rule = WolframRule(150)
    /\ neighborhood = MainTemplate
    /\ \E c1, c2 \in Coords(cells) :
          /\ c1 \in NonNeighbors(cells, c1)
          /\ Alive(pre_cells, c1)
          /\ ~Alive(pre_cells, c2)
          /\ PackedIndex(pre_cells, c1) = PackedIndex(pre_cells, c2)
          /\ Alive(cells, c1)
          /\ Alive(cells, c2)

(***************************************************************************)
(* C18: the lookup table of a Wolfram rule, int_to_bool_list(rule_num,     *)
(* 2^k), has exactly 2^k entries for every rule_num >= 0, shorter          *)
(* expansions being padded with false and longer ones truncated.           *)
(***************************************************************************)
TableHasExactLength ==
    rule.type = "wolfram" =>
        Len(int_to_bool_list(rule.rule_num, TableSize)) = TableSize

(***************************************************************************)
(* C19: as implemented, for 0 <= rule_num < 2^(2^k) and m the neighbors'   *)
(* alive states packed with the first neighbor most significant,           *)
(* WolframRule.get_new_state reads the table at index -m: for m >= 1 it    *)
(* gives the bit of rule_num of weight 2^(m-1) and for m = 0 the bit of    *)
(* weight 2^(2^k - 1), which no other m selects.                           *)
(***************************************************************************)
WolframSelectsNegativeIndex ==
    (last_op = "step" /\ rule.type = "wolfram" /\ rule.rule_num < Pow2(TableSize)) =>
        \A c \in Coords(cells) :
            LET m == PackedIndex(pre_cells, c) IN
            /\ m = 0 => Alive(cells, c) = BitOf(rule.rule_num, TableSize - 1)
            /\ m >= 1 => Alive(cells, c) = BitOf(rule.rule_num, m - 1)
            /\ m = TableSize - 1 => Alive(cells, c) = BitOf(rule.rule_num, TableSize - 2)

\* a step of the rule whose only set bit is the most significant one of
\* the table: a cell with every neighbor dead became alive and a cell with
\* every neighbor alive became dead
OnlyAllDeadSelectsTopBit ==
    /\ last_op = "step"
    /\ rule.type = "wolfram"
    /\ neighborhood = MainTemplate
    /\ rule.rule_num = Pow2(TableSize - 1)
    /\ \E c1, c2 \in Coords(cells) :
          /\ PackedIndex(pre_cells, c1) = 0
          /\ Alive(cells, c1)
          /\ PackedIndex(pre_cells, c2) = TableSize - 1
          /\ ~Alive(cells, c2)

(***************************************************************************)
(* C20: in the driver loop, while paused is true, turn changes only by an  *)
(* ENTER key-up event, by exactly one step(); the convergence check of     *)
(* search mode, and a restart it triggers, happen only with an automatic   *)
(* step taken while not paused.                                            *)
(***************************************************************************)
PausedStepsOnlyByEnter ==
    [][ /\ (loop_pc = "events" /\ paused /\ turn' # turn) =>
            /\ last_event' = "return"
            /\ turn' = turn + 1
            /\ steps' = steps + 1
        /\ (loop_pc = "events" /\ paused) =>
            /\ checks' = checks
            /\ last_event' \notin {"auto", "auto_raised"}
        /\ (Len(checks') > Len(checks)) =>
            /\ ~paused
            /\ search_mode
            /\ last_event' = "auto"
            /\ turn' = turn + 1
        /\ (loop_pc = "events" /\ restarting' /\ ~restarting /\ last_event' # "other") =>
            /\ ~paused
            /\ last_event' = "auto"
            /\ Len(checks') = Len(checks) + 1
            /\ checks'[Len(checks')]
      ]_vars

\* paused in search mode with the step timer run out: the two steps taken
\* were taken by ENTER and no convergence check was made
SteppedByEnterWhilePaused ==
    /\ loop_pc = "events"
    /\ paused
    /\ search_mode
    /\ dt = 1
    /\ last_event = "return"
    /\ turn = 2
    /\ Len(population) = 2
    /\ checks = <<>>
    /\ ~restarting

====
